---------------------------- MODULE Spec2Model ----------------------------
(***************************************************************************)
(* Model of collector/kernel/cgroup_prober.cc: the CgroupProber            *)
(* constructor (the startup sequencer), trigger_existing_cgroup_probe (the *)
(* explicit-stack walker of an existing cgroup hierarchy) and the two      *)
(* mountpoint locators.                                                    *)
(*                                                                         *)
(* A path is the sequence of its components: "/sys/fs/cgroup/memory" is    *)
(* <<"sys","fs","cgroup","memory">>, the empty std::string is <<>>, and    *)
(* dir + "/" + name is Append(dir, name).                                  *)
(***************************************************************************)
EXTENDS Integers, Sequences, FiniteSets, Bags, TLC

(***************************************************************************)
(* Bounds of the environment.                                              *)
(***************************************************************************)
\* largest hierarchy (directory nodes, root included) walked under SpecWalk
MaxNodes == 4
\* largest hierarchy walked under Spec, where the sequencer's inputs vary
SeqMaxNodes == 1
\* largest hierarchy walked under SpecRace, where directories go away meanwhile
RaceMaxNodes == 4

\* names a child cgroup directory can have
Names == {"a", "b"}

VARIABLES
  \* ---- the sequencer (CgroupProber::CgroupProber) ----
  pc,                      \* the statement the constructor is at
  kernel_version,          \* host_info_.kernel_version, <<major, minor>>
  cgroup_v1_mountpoint,    \* local of the constructor, <<>> when empty
  cgroup_v2_mountpoint,    \* local of the constructor, <<>> when empty
  close_dir_error_count_,  \* the member counter
  \* ---- the probe handler, as the constructor drives it ----
  attached,                \* set of <<kind, kernel symbol>> now attached
  calls,                   \* the constructor's calls on its collaborators, in order
  \* ---- the file system the locators and the walker look at ----
  stat_seen,               \* what stat() answered to the last locator call
  tree,                    \* the hierarchy under the walked root: relative paths
  \* ---- the walker (trigger_existing_cgroup_probe) ----
  wpc,                     \* the statement the walker is at
  cgroup_dir_name,         \* its root argument
  file_name,               \* its marker-file argument
  dirs_stack,              \* the traversal stack, top last
  dir_name,                \* the node popped in this iteration
  entries,                 \* what readdir() has not returned yet
  open_dirs,               \* directory handles now open
  open_files,              \* marker-file streams now open
  \* ---- what the walk did so far (history) ----
  popped,                  \* bag of paths popped from the stack
  marker_opened,           \* bag of marker paths opened
  dir_fault,               \* existing directories whose opendir failed
  marker_fault,            \* visited directories whose marker did not open
  owed,                    \* paths stacked at a failed opendir, not popped yet
  rescued,                 \* paths popped after a failed opendir found them stacked
  failed_closes,           \* closedir calls that reported failure
  since_cb,                \* what the walk did since its last periodic_cb
  cb_calls,                \* periodic_cb calls of the walk
  pushes,                  \* child directories the walk pushed
  last_step                \* the kind of the walker's last step

seq_vars == <<pc, kernel_version, cgroup_v1_mountpoint, cgroup_v2_mountpoint>>
probe_vars == <<attached, calls>>
iter_vars == <<dir_name, entries, open_dirs, open_files>>
walk_args == <<tree, cgroup_dir_name, file_name>>
cb_vars == <<since_cb, cb_calls, pushes>>
hist_vars == <<popped, marker_opened, dir_fault, marker_fault, owed, rescued>>
vars == <<pc, kernel_version, cgroup_v1_mountpoint, cgroup_v2_mountpoint,
          close_dir_error_count_, attached, calls, stat_seen, tree, wpc,
          cgroup_dir_name, file_name, dirs_stack, dir_name, entries, open_dirs,
          open_files, popped, marker_opened, dir_fault, marker_fault, owed,
          rescued, failed_closes, since_cb, cb_calls, pushes, last_step>>

NoPath == <<>>

Range(s) == {s[i] : i \in 1..Len(s)}


(***************************************************************************)
(* The mountpoint locators, lines 151-203.  stat() is an input: st maps a  *)
(* marker path to what stat finds there.                                   *)
(***************************************************************************)
V1Marker == "cgroup.clone_children"
V2Marker == "cgroup.controllers"

cgroup_v1_mountpoints ==
  << <<"hostfs", "sys", "fs", "cgroup", "memory">>,
     <<"hostfs", "cgroup", "memory">>,
     <<"sys", "fs", "cgroup", "memory">>,
     <<"cgroup", "memory">> >>

cgroup_v2_mountpoints ==
  << <<"hostfs", "sys", "fs", "cgroup">>,
     <<"sys", "fs", "cgroup">> >>

\* what a path can be for stat(): nothing, a regular file, something else
FileKinds == {"absent", "regular", "directory"}

V1MarkerPaths == {Append(cgroup_v1_mountpoints[i], V1Marker) : i \in 1..Len(cgroup_v1_mountpoints)}
V2MarkerPaths == {Append(cgroup_v2_mountpoints[i], V2Marker) : i \in 1..Len(cgroup_v2_mountpoints)}
MarkerPaths == V1MarkerPaths \cup V2MarkerPaths

\* stat_seen before any locator ran, and for the paths a locator does not look at
Unseen == [p \in MarkerPaths |-> "unseen"]

Seen(st) == [p \in MarkerPaths |-> IF p \in DOMAIN st THEN st[p] ELSE "unseen"]

\* a bug file_exists could have: any existing path counts
file_exists_any(st, file_path) == st[file_path] # "absent"

file_exists(st, file_path) ==
  IF st[file_path] = "absent"
  THEN FALSE
  ELSE st[file_path] = "regular"

is_cgroup_v1_mountpoint(st, dir_path) == file_exists(st, Append(dir_path, V1Marker))

is_cgroup_v2_mountpoint(st, dir_path) == file_exists(st, Append(dir_path, V2Marker))

RECURSIVE FindV1From(_, _)
FindV1From(st, i) ==
  IF i > Len(cgroup_v1_mountpoints) THEN NoPath
  ELSE IF is_cgroup_v1_mountpoint(st, cgroup_v1_mountpoints[i])
       THEN cgroup_v1_mountpoints[i]
       ELSE FindV1From(st, i + 1)

find_cgroup_v1_mountpoint(st) == FindV1From(st, 1)

RECURSIVE FindV2From(_, _)
FindV2From(st, i) ==
  IF i > Len(cgroup_v2_mountpoints) THEN NoPath
  ELSE IF is_cgroup_v2_mountpoint(st, cgroup_v2_mountpoints[i])
       THEN cgroup_v2_mountpoints[i]
       ELSE FindV2From(st, i + 1)

find_cgroup_v2_mountpoint(st) == FindV2From(st, 1)

(***************************************************************************)
(* The probe handler, as the constructor uses it.  Whether an attach       *)
(* succeeds is an input.                                                   *)
(***************************************************************************)
Call(op, sym, ok) == [op |-> op, sym |-> sym, ok |-> ok]

\* a bug the declaration could have: the fallback listed first
kill_kss_probe_alternatives_swapped == <<"css_clear_dir", "kill_css", "cgroup_destroy_locked">>

kill_kss_probe_alternatives == <<"kill_css", "css_clear_dir", "cgroup_destroy_locked">>

css_populate_dir_probe_alternatives == <<"css_populate_dir", "cgroup_populate_dir">>

\* the attempts of start_probe(bpf_module, alternatives) when alternative k is the
\* first to attach (k = 0: none does)
Attempts(alts, k) ==
  [i \in 1..(IF k = 0 THEN Len(alts) ELSE k) |-> Call("start_probe", alts[i], i = k)]

\* the first-to-attach indices the attach outcomes oks allow
Winners(alts, oks) ==
  {k \in 0..Len(alts) : /\ (k # 1) => (FALSE \in oks)
                        /\ (k # 0) => (TRUE \in oks)}

AttachedBy(cs) == {<<"kprobe", cs[i].sym>> : i \in {j \in 1..Len(cs) : cs[j].op = "start_probe" /\ cs[j].ok}}
                  \cup {<<"kretprobe", cs[i].sym>> : i \in {j \in 1..Len(cs) : cs[j].op = "start_kretprobe" /\ cs[j].ok}}

DetachedBy(cs) == {<<"kprobe", cs[i].sym>> : i \in {j \in 1..Len(cs) : cs[j].op = "cleanup_probe"}}
                  \cup {<<"kretprobe", cs[i].sym>> : i \in {j \in 1..Len(cs) : cs[j].op = "cleanup_kretprobe"}}

\* the probe handler after the calls cs, none of which both attaches and detaches
\* one probe
Handle(cs) ==
  /\ attached' = (attached \cup AttachedBy(cs)) \ DetachedBy(cs)
  /\ calls' = calls \o cs

(***************************************************************************)
(* The kernel-version gate, lines 75-76.                                   *)
(***************************************************************************)
cgroup_v2_first_kernel_version == <<4, 6>>

\* the order of host_info_.kernel_version values (common/host_info.h)
KernelVersionGE(v, w) == (v[1] > w[1]) \/ (v[1] = w[1] /\ v[2] >= w[2])

\* a bug the gate could have: the first supporting version left out
V2Gate_strict(v) == KernelVersionGE(v, cgroup_v2_first_kernel_version) /\ v # cgroup_v2_first_kernel_version

V2Gate(v) == KernelVersionGE(v, cgroup_v2_first_kernel_version)

\* kernel versions the model runs on
KernelVersions == {<<3, 10>>, <<4, 5>>, <<4, 6>>, <<4, 10>>, <<5, 4>>}

(***************************************************************************)
(* The hierarchy the walker looks at.  A tree is the set of its            *)
(* directories, each the path from the walked root; opendir, the marker    *)
(* open and closedir can each fail, which is an input of the step.         *)
(***************************************************************************)
RECURSIVE TreesOfSize(_)
TreesOfSize(k) ==
  IF k <= 1 THEN {{NoPath}}
  ELSE {T \in UNION {{S \cup {Append(p, n)} : p \in S, n \in Names} : S \in TreesOfSize(k - 1)} :
          Cardinality(T) = k}

Trees(n) == UNION {TreesOfSize(k) : k \in 1..n}

DT_DIR == "DT_DIR"
DT_REG == "DT_REG"

Dirent(name, type) == [d_name |-> name, d_type |-> type]

\* what readdir() returns for the directory rel of tree t, in no promised order
DirEntries(t, rel, marker) ==
  {Dirent(".", DT_DIR), Dirent("..", DT_DIR), Dirent(marker, DT_REG)}
    \cup {Dirent(n, DT_DIR) : n \in {m \in Names : Append(rel, m) \in t}}

\* the path the kernel resolves: "." stays, ".." goes up
RECURSIVE Normalize(_)
Normalize(path) ==
  IF path = <<>> THEN <<>>
  ELSE LET front == Normalize(SubSeq(path, 1, Len(path) - 1))
           last == path[Len(path)]
       IN IF last = "." THEN front
          ELSE IF last = ".." THEN (IF front = <<>> THEN <<>> ELSE SubSeq(front, 1, Len(front) - 1))
          ELSE Append(front, last)

HasPrefix(path, root) == Len(path) >= Len(root) /\ SubSeq(path, 1, Len(root)) = root

RelOf(path, root) == SubSeq(path, Len(root) + 1, Len(path))

\* path names a directory of the walked hierarchy
IsDirectory(t, root, path) ==
  LET q == Normalize(path)
  IN HasPrefix(q, root) /\ RelOf(q, root) \in t

(***************************************************************************)
(* trigger_existing_cgroup_probe, lines 98-149.                            *)
(***************************************************************************)
StackTop(s) == s[Len(s)]

\* a bug the pop could have: top() without pop()
StackPop_kept(s) == s

StackPop(s) == SubSeq(s, 1, Len(s) - 1)

\* a bug the skip could have: the next path on the stack skipped as well
StackAfterOpendirFail_drop(s) == IF s = <<>> THEN s ELSE SubSeq(s, 1, Len(s) - 1)

\* a bug the skip could have: leave the loop instead of continuing it
StackAfterOpendirFail_break(s) == <<>>

StackAfterOpendirFail(s) == s

\* a bug the filter could have: ".." forgotten
IsSelfOrParent_self(d_name) == d_name = "."

IsSelfOrParent(d_name) == (d_name = ".") \/ (d_name = "..")

ShouldPush(ent) == ent.d_type = DT_DIR /\ ~IsSelfOrParent(ent.d_name)

\* a bug the count could have: every close counted
CloseStatusCount_every(count, status) == count + 1

CloseStatusCount(count, status) == IF status # 0 THEN count + 1 ELSE count

\* a bug the marker-failure path could have: no closedir before continue
DirsAfterMarkerFail_leak(dirs, dir) == dirs

DirsAfterMarkerFail(dirs, dir) == dirs \ {dir}

CloseStatuses == {0, -1}

\* lines 104-107, in order
PopEvents == <<"periodic_cb", "pop">>

\* a bug the readdir loop could have: the callback only for what is not pushed
ReaddirEvents_quiet(ent) ==
  IF ent.d_type = DT_DIR THEN (IF IsSelfOrParent(ent.d_name) THEN <<>> ELSE <<"push">>)
  ELSE <<"periodic_cb">>

\* lines 135-142, in order: "." and ".." continue before the callback of line 142
ReaddirEvents(ent) ==
  IF ent.d_type = DT_DIR
  THEN (IF IsSelfOrParent(ent.d_name) THEN <<>> ELSE <<"push", "periodic_cb">>)
  ELSE <<"periodic_cb">>

Count(evs, e) == Cardinality({i \in 1..Len(evs) : evs[i] = e})

\* what of evs came after its last periodic_cb
RECURSIVE SinceCb(_)
SinceCb(evs) ==
  IF evs = <<>> THEN <<>>
  ELSE IF evs[Len(evs)] = "periodic_cb" THEN <<>>
       ELSE Append(SinceCb(SubSeq(evs, 1, Len(evs) - 1)), evs[Len(evs)])

\* the callback history after the walk did evs
Did(evs) ==
  /\ since_cb' = SinceCb(since_cb \o evs)
  /\ cb_calls' = cb_calls + Count(evs, "periodic_cb")
  /\ pushes' = pushes + Count(evs, "push")

\* lines 101-102: the call, on the hierarchy t found under the root
WalkerCall(root, marker, t) ==
  /\ wpc' = "loop"
  /\ cgroup_dir_name' = root
  /\ file_name' = marker
  /\ tree' = t
  /\ dirs_stack' = <<root>>
  /\ dir_name' = NoPath
  /\ entries' = {}
  /\ open_dirs' = {}
  /\ open_files' = {}
  /\ popped' = EmptyBag
  /\ marker_opened' = EmptyBag
  /\ dir_fault' = {}
  /\ marker_fault' = {}
  /\ owed' = {}
  /\ rescued' = {}
  /\ since_cb' = <<>>
  /\ cb_calls' = 0
  /\ pushes' = 0
  /\ last_step' = "call"
  /\ UNCHANGED <<close_dir_error_count_, failed_closes>>

\* the walker's frame after its return: its arguments and locals are gone, and the
\* history of the walk with them
WalkerGone ==
  /\ wpc' = "idle"
  /\ tree' = {NoPath}
  /\ cgroup_dir_name' = NoPath
  /\ file_name' = ""
  /\ dirs_stack' = <<>>
  /\ dir_name' = NoPath
  /\ entries' = {}
  /\ open_dirs' = {}
  /\ open_files' = {}
  /\ popped' = EmptyBag
  /\ marker_opened' = EmptyBag
  /\ dir_fault' = {}
  /\ marker_fault' = {}
  /\ owed' = {}
  /\ rescued' = {}
  /\ since_cb' = <<>>
  /\ cb_calls' = 0
  /\ pushes' = 0
  /\ last_step' = "sequencer"
  /\ UNCHANGED <<close_dir_error_count_, failed_closes>>

WalkerIdle ==
  /\ last_step' = "sequencer"
  /\ UNCHANGED cb_vars
  /\ UNCHANGED <<tree, wpc, cgroup_dir_name, file_name, dirs_stack, dir_name, entries,
                 open_dirs, open_files, popped, marker_opened, dir_fault, marker_fault,
                 owed, rescued, failed_closes, close_dir_error_count_>>

\* lines 103-107: the loop test holds; periodic_cb, top, pop
Pop ==
  /\ wpc = "loop"
  /\ dirs_stack # <<>>
  /\ dir_name' = StackTop(dirs_stack)
  /\ dirs_stack' = StackPop(dirs_stack)
  /\ popped' = popped (+) SetToBag({StackTop(dirs_stack)})
  /\ rescued' = rescued \cup ({StackTop(dirs_stack)} \cap owed)
  /\ owed' = owed \ {StackTop(dirs_stack)}
  /\ Did(PopEvents)
  /\ wpc' = "opendir"
  /\ last_step' = "pop"
  /\ UNCHANGED <<seq_vars, probe_vars, stat_seen, walk_args, entries, open_dirs, open_files,
                 marker_opened, dir_fault, marker_fault, failed_closes,
                 close_dir_error_count_>>

\* lines 103, 149: the loop test fails; the walk returns
Return ==
  /\ wpc = "loop"
  /\ dirs_stack = <<>>
  /\ wpc' = "returned"
  /\ last_step' = "return"
  /\ UNCHANGED cb_vars
  /\ UNCHANGED <<seq_vars, probe_vars, stat_seen, walk_args, dirs_stack, iter_vars, hist_vars,
                 failed_closes, close_dir_error_count_>>

\* lines 109-112: opendir; a failure skips the node
OpenDir ==
  /\ wpc = "opendir"
  /\ Did(<<"opendir">>)
  /\ \E ok \in BOOLEAN :
       IF ok /\ IsDirectory(tree, cgroup_dir_name, dir_name)
       THEN /\ open_dirs' = open_dirs \cup {dir_name}
            /\ wpc' = "openfile"
            /\ last_step' = "opendir_ok"
            /\ UNCHANGED <<dirs_stack, dir_fault, owed>>
       ELSE /\ dirs_stack' = StackAfterOpendirFail(dirs_stack)
            /\ dir_fault' = IF IsDirectory(tree, cgroup_dir_name, dir_name)
                            THEN dir_fault \cup {dir_name} ELSE dir_fault
            /\ owed' = owed \cup Range(dirs_stack)
            /\ wpc' = "loop"
            /\ last_step' = "opendir_fail"
            /\ UNCHANGED open_dirs
  /\ UNCHANGED <<seq_vars, probe_vars, stat_seen, walk_args, dir_name, entries, open_files,
                 popped, marker_opened, marker_fault, rescued, failed_closes,
                 close_dir_error_count_>>

\* lines 114-129: the marker file is opened and one line read; a failure goes to
\* the closedir of line 120
OpenFile ==
  /\ wpc = "openfile"
  /\ UNCHANGED cb_vars
  /\ \E ok \in BOOLEAN :
       IF ok
       THEN /\ open_files' = open_files \cup {Append(dir_name, file_name)}
            /\ marker_opened' = marker_opened (+) SetToBag({Append(dir_name, file_name)})
            /\ entries' = DirEntries(tree, RelOf(Normalize(dir_name), cgroup_dir_name), file_name)
            /\ wpc' = "readdir"
            /\ last_step' = "openfile_ok"
            /\ UNCHANGED marker_fault
       ELSE /\ marker_fault' = marker_fault \cup {dir_name}
            /\ wpc' = "file_failed"
            /\ last_step' = "openfile_fail"
            /\ UNCHANGED <<open_files, marker_opened, entries>>
  /\ UNCHANGED <<seq_vars, probe_vars, stat_seen, walk_args, dirs_stack, dir_name, open_dirs,
                 popped, dir_fault, owed, rescued, failed_closes, close_dir_error_count_>>

\* lines 120-124: closedir and continue, the entries never read
CloseAfterFileFail ==
  /\ wpc = "file_failed"
  /\ UNCHANGED cb_vars
  /\ \E status \in CloseStatuses :
       /\ close_dir_error_count_' = CloseStatusCount(close_dir_error_count_, status)
       /\ failed_closes' = IF status # 0 THEN failed_closes + 1 ELSE failed_closes
       /\ last_step' = IF status # 0 THEN "close_fail" ELSE "close_ok"
  /\ open_dirs' = DirsAfterMarkerFail(open_dirs, dir_name)
  /\ wpc' = "loop"
  /\ UNCHANGED <<seq_vars, probe_vars, stat_seen, walk_args, dirs_stack, dir_name, entries,
                 open_files, hist_vars>>

\* lines 134-143: one readdir that returns an entry; periodic_cb follows unless
\* the entry is "." or "..", which line 138 skips with continue
ReadDir ==
  /\ wpc = "readdir"
  /\ \E ent \in entries :
       /\ entries' = entries \ {ent}
       /\ dirs_stack' = IF ShouldPush(ent)
                        THEN Append(dirs_stack, Append(dir_name, ent.d_name))
                        ELSE dirs_stack
       /\ Did(ReaddirEvents(ent))
  /\ last_step' = "readdir"
  /\ UNCHANGED <<seq_vars, probe_vars, stat_seen, walk_args, wpc, dir_name, open_dirs,
                 open_files, hist_vars, failed_closes, close_dir_error_count_>>

\* lines 134, 144-148: readdir returns NULL; closedir; the iteration's scope ends
\* and with it the marker stream
CloseDir ==
  /\ wpc = "readdir"
  /\ entries = {}
  /\ UNCHANGED cb_vars
  /\ \E status \in CloseStatuses :
       /\ close_dir_error_count_' = CloseStatusCount(close_dir_error_count_, status)
       /\ failed_closes' = IF status # 0 THEN failed_closes + 1 ELSE failed_closes
       /\ last_step' = IF status # 0 THEN "close_fail" ELSE "close_ok"
  /\ open_dirs' = open_dirs \ {dir_name}
  /\ open_files' = open_files \ {Append(dir_name, file_name)}
  /\ wpc' = "loop"
  /\ UNCHANGED <<seq_vars, probe_vars, stat_seen, walk_args, dirs_stack, dir_name, entries,
                 hist_vars>>

\* Another process removes a cgroup directory while the walk runs: rmdir(2) of a
\* cgroup that has no child cgroup, the mountpoint never.  A readdir already under
\* way on its parent may or may not still return its entry.
Rmdir ==
  /\ wpc \notin {"idle", "returned"}
  /\ \E rel \in tree \ {NoPath} :
       /\ \A n \in Names : Append(rel, n) \notin tree
       /\ tree' = tree \ {rel}
       /\ \E listed \in BOOLEAN :
            entries' = IF ~listed /\ wpc = "readdir"
                          /\ cgroup_dir_name \o SubSeq(rel, 1, Len(rel) - 1) = Normalize(dir_name)
                       THEN entries \ {Dirent(rel[Len(rel)], DT_DIR)}
                       ELSE entries
  /\ UNCHANGED cb_vars
  /\ UNCHANGED <<seq_vars, probe_vars, stat_seen, wpc, cgroup_dir_name, file_name, dirs_stack,
                 dir_name, open_dirs, open_files, hist_vars, failed_closes,
                 close_dir_error_count_, last_step>>

Walker == Pop \/ Return \/ OpenDir \/ OpenFile \/ CloseAfterFileFail \/ ReadDir \/ CloseDir

(***************************************************************************)
(* CgroupProber::CgroupProber, lines 22-96.  oks are the outcomes an       *)
(* attach can have, stats1 and stats2 what stat() can answer to the two    *)
(* locators, trees the hierarchies a walk can find.                        *)
(***************************************************************************)
V1Stats == [V1MarkerPaths -> FileKinds]
V2Stats == [V2MarkerPaths -> FileKinds]

\* a bug the v1 cleanup could have: done only when the v1 walk ran
V1CleanupCalls_found ==
  IF cgroup_v1_mountpoint # NoPath
  THEN <<Call("cleanup_probe", "cgroup_clone_children_read", TRUE)>>
  ELSE <<>>

\* a bug the v1 cleanup could have: the task probe taken down with the trigger
V1CleanupCalls_both ==
  <<Call("cleanup_probe", "cgroup_clone_children_read", TRUE),
    Call("cleanup_probe", "cgroup_attach_task", TRUE)>>

\* line 72
V1CleanupCalls == <<Call("cleanup_probe", "cgroup_clone_children_read", TRUE)>>

\* a bug the cleanup could have: the return probe left attached
V2CleanupCalls_entry == <<Call("cleanup_probe", "cgroup_control", TRUE)>>

\* lines 90-91
V2CleanupCalls ==
  <<Call("cleanup_kretprobe", "cgroup_control", TRUE),
    Call("cleanup_probe", "cgroup_control", TRUE)>>

\* lines 31-41
AttachKillCss(oks) ==
  /\ pc = "attach_kill_css"
  /\ \E k \in Winners(kill_kss_probe_alternatives, oks) :
       Handle(Attempts(kill_kss_probe_alternatives, k) \o <<Call("periodic_cb", "", TRUE)>>)
  /\ pc' = "attach_populate"
  /\ WalkerIdle
  /\ UNCHANGED <<kernel_version, cgroup_v1_mountpoint, cgroup_v2_mountpoint, stat_seen>>

\* lines 43-51
AttachPopulate(oks) ==
  /\ pc = "attach_populate"
  /\ \E k \in Winners(css_populate_dir_probe_alternatives, oks) :
       Handle(Attempts(css_populate_dir_probe_alternatives, k) \o <<Call("periodic_cb", "", TRUE)>>)
  /\ pc' = "attach_v1"
  /\ WalkerIdle
  /\ UNCHANGED <<kernel_version, cgroup_v1_mountpoint, cgroup_v2_mountpoint, stat_seen>>

\* a bug the v1 attach could have: the trigger probe of the v1 walk not attached
V1AttachCalls_untriggered(ok1, ok2) ==
  <<Call("start_probe", "cgroup_attach_task", ok2),
    Call("periodic_cb", "", TRUE),
    Call("check_cb", "cgroup prober startup", TRUE)>>

\* lines 56-60
V1AttachCalls(ok1, ok2) ==
  <<Call("start_probe", "cgroup_clone_children_read", ok1),
    Call("start_probe", "cgroup_attach_task", ok2),
    Call("periodic_cb", "", TRUE),
    Call("check_cb", "cgroup prober startup", TRUE)>>

\* lines 55-60
AttachV1(oks) ==
  /\ pc = "attach_v1"
  /\ \E ok1 \in oks, ok2 \in oks : Handle(V1AttachCalls(ok1, ok2))
  /\ pc' = "find_v1"
  /\ WalkerIdle
  /\ UNCHANGED <<kernel_version, cgroup_v1_mountpoint, cgroup_v2_mountpoint, stat_seen>>

\* lines 62-63
FindV1(stats1) ==
  /\ pc = "find_v1"
  /\ \E st \in stats1 :
       /\ cgroup_v1_mountpoint' = find_cgroup_v1_mountpoint(st)
       /\ stat_seen' = Seen(st)
  /\ Handle(<<Call("find_cgroup_v1_mountpoint", "", TRUE)>>)
  /\ pc' = "v1_found"
  /\ WalkerIdle
  /\ UNCHANGED <<kernel_version, cgroup_v2_mountpoint>>

\* lines 65-67: the v1 walk is called when a mountpoint was found
TriggerV1(trees) ==
  /\ pc = "v1_found"
  /\ stat_seen' = Unseen
  /\ IF cgroup_v1_mountpoint # NoPath
     THEN /\ \E t \in trees : WalkerCall(cgroup_v1_mountpoint, V1Marker, t)
          /\ Handle(<<Call("trigger_existing_cgroup_probe", V1Marker, TRUE)>>)
          /\ pc' = "v1_walk"
     ELSE /\ WalkerIdle
          /\ UNCHANGED probe_vars
          /\ pc' = "cleanup_v1"
  /\ UNCHANGED <<kernel_version, cgroup_v1_mountpoint, cgroup_v2_mountpoint>>

\* lines 67-68: the v1 walk has returned
TriggerV1Done ==
  /\ pc = "v1_walk"
  /\ wpc = "returned"
  /\ Handle(<<Call("returned", V1Marker, TRUE),
              Call("check_cb", "trigger_cgroup_clone_children_read()", TRUE)>>)
  /\ pc' = "cleanup_v1"
  /\ WalkerGone
  /\ UNCHANGED <<kernel_version, cgroup_v1_mountpoint, cgroup_v2_mountpoint, stat_seen>>

\* lines 71-72
CleanupV1 ==
  /\ pc = "cleanup_v1"
  /\ Handle(V1CleanupCalls)
  /\ pc' = "v2_gate"
  /\ WalkerIdle
  /\ UNCHANGED <<kernel_version, cgroup_v1_mountpoint, cgroup_v2_mountpoint, stat_seen>>

\* lines 74-78: the gate, and behind it the two attaches
AttachV2(oks) ==
  /\ pc = "v2_gate"
  /\ IF V2Gate(kernel_version)
     THEN /\ \E ok1 \in oks, ok2 \in oks :
               Handle(<<Call("start_probe", "cgroup_control", ok1),
                        Call("start_kretprobe", "cgroup_control", ok2)>>)
          /\ pc' = "find_v2"
     ELSE /\ UNCHANGED probe_vars
          /\ pc' = "final"
  /\ WalkerIdle
  /\ UNCHANGED <<kernel_version, cgroup_v1_mountpoint, cgroup_v2_mountpoint, stat_seen>>

\* lines 80-81
FindV2(stats2) ==
  /\ pc = "find_v2"
  /\ \E st \in stats2 :
       /\ cgroup_v2_mountpoint' = find_cgroup_v2_mountpoint(st)
       /\ stat_seen' = Seen(st)
  /\ Handle(<<Call("find_cgroup_v2_mountpoint", "", TRUE)>>)
  /\ pc' = "v2_found"
  /\ WalkerIdle
  /\ UNCHANGED <<kernel_version, cgroup_v1_mountpoint>>

\* a bug the v2 test could have: v2 walked only on a host without v1
FoundV2_exclusive == cgroup_v2_mountpoint # NoPath /\ cgroup_v1_mountpoint = NoPath

\* line 83
FoundV2 == cgroup_v2_mountpoint # NoPath

\* lines 83-85
TriggerV2(trees) ==
  /\ pc = "v2_found"
  /\ stat_seen' = Unseen
  /\ IF FoundV2
     THEN /\ \E t \in trees : WalkerCall(cgroup_v2_mountpoint, V2Marker, t)
          /\ Handle(<<Call("trigger_existing_cgroup_probe", V2Marker, TRUE)>>)
          /\ pc' = "v2_walk"
     ELSE /\ WalkerIdle
          /\ UNCHANGED probe_vars
          /\ pc' = "cleanup_v2"
  /\ UNCHANGED <<kernel_version, cgroup_v1_mountpoint, cgroup_v2_mountpoint>>

\* lines 85-86
TriggerV2Done ==
  /\ pc = "v2_walk"
  /\ wpc = "returned"
  /\ Handle(<<Call("returned", V2Marker, TRUE),
              Call("check_cb", "trigger_cgroup_control()", TRUE)>>)
  /\ pc' = "cleanup_v2"
  /\ WalkerGone
  /\ UNCHANGED <<kernel_version, cgroup_v1_mountpoint, cgroup_v2_mountpoint, stat_seen>>

\* lines 89-92
CleanupV2 ==
  /\ pc = "cleanup_v2"
  /\ Handle(V2CleanupCalls)
  /\ pc' = "final"
  /\ WalkerIdle
  /\ UNCHANGED <<kernel_version, cgroup_v1_mountpoint, cgroup_v2_mountpoint, stat_seen>>

\* a bug the end could have: the checkpoint before the last liveness callback
FinalCalls_swapped ==
  <<Call("check_cb", "cgroup prober cleanup()", TRUE), Call("periodic_cb", "", TRUE)>>

\* lines 94-95
FinalCalls ==
  <<Call("periodic_cb", "", TRUE), Call("check_cb", "cgroup prober cleanup()", TRUE)>>

\* lines 94-96
Final ==
  /\ pc = "final"
  /\ Handle(FinalCalls)
  /\ pc' = "done"
  /\ WalkerIdle
  /\ UNCHANGED <<kernel_version, cgroup_v1_mountpoint, cgroup_v2_mountpoint, stat_seen>>

\* line 28 and the entry of the constructor, on a host of kernel version in versions
Construct(versions) ==
  /\ pc = "attach_kill_css"
  /\ kernel_version \in versions
  /\ cgroup_v1_mountpoint = NoPath
  /\ cgroup_v2_mountpoint = NoPath
  /\ close_dir_error_count_ = 0
  /\ attached = {}
  /\ calls = <<>>
  /\ stat_seen = Unseen
  /\ tree = {NoPath}
  /\ wpc = "idle"
  /\ cgroup_dir_name = NoPath
  /\ file_name = ""
  /\ dirs_stack = <<>>
  /\ dir_name = NoPath
  /\ entries = {}
  /\ open_dirs = {}
  /\ open_files = {}
  /\ popped = EmptyBag
  /\ marker_opened = EmptyBag
  /\ dir_fault = {}
  /\ marker_fault = {}
  /\ owed = {}
  /\ rescued = {}
  /\ failed_closes = 0
  /\ since_cb = <<>>
  /\ cb_calls = 0
  /\ pushes = 0
  /\ last_step = "sequencer"

Sequencer(oks, stats1, stats2, trees) ==
  \/ AttachKillCss(oks)
  \/ AttachPopulate(oks)
  \/ AttachV1(oks)
  \/ FindV1(stats1)
  \/ TriggerV1(trees)
  \/ TriggerV1Done
  \/ CleanupV1
  \/ AttachV2(oks)
  \/ FindV2(stats2)
  \/ TriggerV2(trees)
  \/ TriggerV2Done
  \/ CleanupV2
  \/ Final

(***************************************************************************)
(* Spec: every kernel version and every attach outcome, the mountpoints    *)
(* absent or at the third v1 and the second v2 candidate, on the           *)
(* hierarchies of at most SeqMaxNodes directories.                         *)
(***************************************************************************)
OnlyRegular(paths, p) == [q \in paths |-> IF q = p THEN "regular" ELSE "absent"]

NoneRegular(paths) == [q \in paths |-> "absent"]

ThirdV1 == OnlyRegular(V1MarkerPaths, Append(cgroup_v1_mountpoints[3], V1Marker))
SecondV2 == OnlyRegular(V2MarkerPaths, Append(cgroup_v2_mountpoints[2], V2Marker))

Init == Construct(KernelVersions)

Next ==
  \/ Sequencer(BOOLEAN, {ThirdV1, NoneRegular(V1MarkerPaths)},
               {SecondV2, NoneRegular(V2MarkerPaths)}, Trees(SeqMaxNodes))
  \/ Walker

Spec == Init /\ [][Next]_vars

(***************************************************************************)
(* SpecWalk: the host where every probe attaches, the third v1 candidate   *)
(* and the second v2 candidate are the mountpoints and the kernel is 4.6,  *)
(* on the hierarchies of at most MaxNodes directories.                     *)
(***************************************************************************)
InitWalk == Construct({cgroup_v2_first_kernel_version})

NextWalk == Sequencer({TRUE}, {ThirdV1}, {SecondV2}, Trees(MaxNodes)) \/ Walker

SpecWalk == InitWalk /\ [][NextWalk]_vars

\* The constructor and the walk it calls run on one thread, statement after
\* statement, and no call of theirs waits for anything: a step that can be taken
\* is taken.
SpecWalkFair == SpecWalk /\ WF_vars(NextWalk)

(***************************************************************************)
(* SpecLocate: the same host, under every answer stat() can give for the   *)
(* six marker paths, on the hierarchy of the root alone.                   *)
(***************************************************************************)
InitLocate == Construct({cgroup_v2_first_kernel_version})

NextLocate == Sequencer({TRUE}, V1Stats, V2Stats, Trees(1)) \/ Walker

SpecLocate == InitLocate /\ [][NextLocate]_vars

(***************************************************************************)
(* The walk of a hierarchy that loses directories meanwhile.               *)
(***************************************************************************)
InitRace == Construct({cgroup_v2_first_kernel_version})

NextRace == Sequencer({TRUE}, {ThirdV1}, {SecondV2}, Trees(RaceMaxNodes)) \/ Walker \/ Rmdir

SpecRace == InitRace /\ [][NextRace]_vars

(***************************************************************************)
(* The walker's properties.                                                *)
(***************************************************************************)
\* the directories of the walked hierarchy, as full paths
NodePaths == {cgroup_dir_name \o rel : rel \in tree}

MarkerOf(p) == Append(p, file_name)

\* no opendir of a directory and no marker open has failed in this walk
NoFault == dir_fault = {} /\ marker_fault = {}

Walking == wpc \notin {"idle"}

\* C1: when every directory and every marker file opens, no node is popped twice,
\* no marker file is opened twice, nothing but a node of the hierarchy is popped,
\* and when the walk returns every node was popped once and its marker opened
\* once; with no failed close the close-error counter is still 0.
C1_EveryNodeVisitedOnce ==
  (Walking /\ NoFault) =>
    /\ \A p \in BagToSet(popped) : p \in NodePaths /\ CopiesIn(p, popped) = 1
    /\ \A m \in BagToSet(marker_opened) :
         /\ m \in {MarkerOf(p) : p \in NodePaths}
         /\ CopiesIn(m, marker_opened) = 1
    /\ (wpc = "returned") =>
         /\ \A p \in NodePaths :
              CopiesIn(p, popped) = 1 /\ CopiesIn(MarkerOf(p), marker_opened) = 1
         /\ (failed_closes = 0) => (close_dir_error_count_ = 0)

C1_Witness ==
  /\ wpc = "returned"
  /\ NoFault
  /\ Cardinality(tree) >= 3
  /\ BagCardinality(marker_opened) = Cardinality(tree)
  /\ close_dir_error_count_ = 0

\* C2: when the walk returns, every subdirectory of a visited node whose marker
\* file did not open has been stacked and popped.
C2_MarkerFailureStillDescends ==
  (wpc = "returned") =>
    \A p \in marker_fault : \A n \in Names :
      IsDirectory(tree, cgroup_dir_name, Append(p, n)) => BagIn(Append(p, n), popped)

\* C3: a failed opendir continues the loop, and every path that was on the stack
\* at a failed opendir has been popped when the walk returns.
C3_FailedOpendirSkipsOneNode ==
  /\ (last_step = "opendir_fail") => (wpc = "loop" /\ Range(dirs_stack) \subseteq owed)
  /\ (wpc = "returned") => (owed = {})

C3_Witness ==
  /\ wpc = "returned"
  /\ dir_fault # {}
  /\ rescued # {}
  /\ \E p \in rescued : BagIn(MarkerOf(p), marker_opened)

\* C4: every path on the traversal stack is a directory of the hierarchy, and none
\* ends in "." or "..".
C4_NoDotOnStack ==
  \A i \in 1..Len(dirs_stack) :
    /\ dirs_stack[i] # <<>>
    /\ dirs_stack[i][Len(dirs_stack[i])] \notin {".", ".."}
    /\ dirs_stack[i] \in NodePaths

C4_Witness ==
  /\ wpc = "readdir"
  /\ Dirent(".", DT_DIR) \notin entries
  /\ Dirent("..", DT_DIR) \notin entries
  /\ Dirent(file_name, DT_REG) \notin entries
  /\ Len(dirs_stack) >= 2

\* C5: the close-error counter starts at 0; a step that is a failed closedir adds
\* exactly one to it, and every other step leaves it as it is.
C5_CounterCountsFailedCloses ==
  /\ close_dir_error_count_ = 0
  /\ [][/\ (last_step' = "close_fail") => (close_dir_error_count_' = close_dir_error_count_ + 1)
        /\ (last_step' # "close_fail") => (close_dir_error_count_' = close_dir_error_count_)]_vars

C5_Witness ==
  /\ pc = "v2_walk"
  /\ last_step = "close_fail"
  /\ marker_fault # {}
  /\ close_dir_error_count_ >= 3

\* C10: at most one directory handle and one marker stream are open, they are
\* those of the node being visited, and none is open when the loop test runs or
\* the walk has returned.
C10_HandlesScopedToIteration ==
  /\ Cardinality(open_dirs) <= 1
  /\ Cardinality(open_files) <= 1
  /\ open_dirs \subseteq {dir_name}
  /\ open_files \subseteq {MarkerOf(dir_name)}
  /\ (wpc \in {"idle", "loop", "returned"}) => (open_dirs = {} /\ open_files = {})

C10_Witness ==
  /\ wpc = "loop"
  /\ last_step = "close_fail"
  /\ marker_fault # {}
  /\ dir_fault # {}
  /\ BagCardinality(marker_opened) >= 2
  /\ open_dirs = {}
  /\ open_files = {}

(***************************************************************************)
(* The locators' property.                                                 *)
(***************************************************************************)
\* the candidates whose marker path stat() reported as a regular file
RegularV1 == {i \in 1..Len(cgroup_v1_mountpoints) :
                stat_seen[Append(cgroup_v1_mountpoints[i], V1Marker)] = "regular"}
RegularV2 == {i \in 1..Len(cgroup_v2_mountpoints) :
                stat_seen[Append(cgroup_v2_mountpoints[i], V2Marker)] = "regular"}

\* C6: each locator returns the lowest-index candidate whose marker is a regular
\* file, and the empty path exactly when no candidate has one.
C6_FirstRegularMarkerWins ==
  /\ (pc = "v1_found") =>
       /\ (cgroup_v1_mountpoint = NoPath) <=> (RegularV1 = {})
       /\ \A i \in RegularV1 :
            (\A j \in RegularV1 : i <= j) => (cgroup_v1_mountpoint = cgroup_v1_mountpoints[i])
  /\ (pc = "v2_found") =>
       /\ (cgroup_v2_mountpoint = NoPath) <=> (RegularV2 = {})
       /\ \A i \in RegularV2 :
            (\A j \in RegularV2 : i <= j) => (cgroup_v2_mountpoint = cgroup_v2_mountpoints[i])

C6_Witness ==
  /\ pc = "v1_found"
  /\ stat_seen[Append(cgroup_v1_mountpoints[1], V1Marker)] = "directory"
  /\ stat_seen[Append(cgroup_v1_mountpoints[2], V1Marker)] = "absent"
  /\ stat_seen[Append(cgroup_v1_mountpoints[3], V1Marker)] = "regular"
  /\ stat_seen[Append(cgroup_v1_mountpoints[4], V1Marker)] = "regular"
  /\ cgroup_v1_mountpoint = cgroup_v1_mountpoints[3]

(***************************************************************************)
(* The sequencer's properties, over the calls it has made.                 *)
(***************************************************************************)
\* where in calls the call op on sym is
Idx(op, sym) == {i \in 1..Len(calls) : calls[i].op = op /\ calls[i].sym = sym}

Called(op, sym) == Idx(op, sym) # {}

AllBefore(A, B) == \A i \in A, j \in B : i < j

\* the steps of lines 77-91
V2Steps ==
  Idx("start_probe", "cgroup_control") \cup Idx("start_kretprobe", "cgroup_control")
    \cup Idx("find_cgroup_v2_mountpoint", "") \cup Idx("trigger_existing_cgroup_probe", V2Marker)
    \cup Idx("cleanup_probe", "cgroup_control") \cup Idx("cleanup_kretprobe", "cgroup_control")

\* the kernel version is 4.6 or later, in version order
AtLeast46 == kernel_version[1] * 1000 + kernel_version[2] >= 4006

TransientProbes ==
  {<<"kprobe", "cgroup_clone_children_read">>, <<"kprobe", "cgroup_control">>,
   <<"kretprobe", "cgroup_control">>}

\* C8: when the sequencer is done no transient probe is attached, and a transient
\* probe is detached only after the walk it serves, when there was one, returned.
C8_TransientProbesDetached ==
  /\ (pc = "done") => (attached \cap TransientProbes = {})
  /\ (Called("trigger_existing_cgroup_probe", V1Marker)
        /\ Called("cleanup_probe", "cgroup_clone_children_read")) =>
       /\ Called("returned", V1Marker)
       /\ AllBefore(Idx("returned", V1Marker), Idx("cleanup_probe", "cgroup_clone_children_read"))
  /\ (Called("trigger_existing_cgroup_probe", V2Marker)
        /\ (Called("cleanup_probe", "cgroup_control") \/ Called("cleanup_kretprobe", "cgroup_control"))) =>
       /\ Called("returned", V2Marker)
       /\ AllBefore(Idx("returned", V2Marker),
                    Idx("cleanup_probe", "cgroup_control") \cup Idx("cleanup_kretprobe", "cgroup_control"))

C8_Witness ==
  /\ pc = "done"
  /\ \E i \in Idx("start_probe", "cgroup_clone_children_read") : calls[i].ok
  /\ \E i \in Idx("start_probe", "cgroup_control") : calls[i].ok
  /\ \E i \in Idx("start_kretprobe", "cgroup_control") : calls[i].ok
  /\ Called("returned", V1Marker)
  /\ Called("returned", V2Marker)
  /\ attached \cap TransientProbes = {}

\* C9: cgroup_clone_children_read is never detached twice, is detached once when
\* the v1 phase is over, after the v1 walk returned when there was one, and
\* before every v2 step.
C9_V1TriggerDetachedOnce ==
  /\ Cardinality(Idx("cleanup_probe", "cgroup_clone_children_read")) <= 1
  /\ (pc \in {"v2_gate", "find_v2", "v2_found", "v2_walk", "cleanup_v2", "final", "done"}) =>
       Cardinality(Idx("cleanup_probe", "cgroup_clone_children_read")) = 1
  /\ Called("cleanup_probe", "cgroup_clone_children_read") =>
       (Called("trigger_existing_cgroup_probe", V1Marker) =>
          /\ Called("returned", V1Marker)
          /\ AllBefore(Idx("returned", V1Marker), Idx("cleanup_probe", "cgroup_clone_children_read")))
  /\ AllBefore(Idx("cleanup_probe", "cgroup_clone_children_read"), V2Steps)
  /\ (V2Steps # {}) => Called("cleanup_probe", "cgroup_clone_children_read")

C9_Witness ==
  /\ pc = "done"
  /\ cgroup_v1_mountpoint = NoPath
  /\ ~Called("trigger_existing_cgroup_probe", V1Marker)
  /\ Cardinality(Idx("cleanup_probe", "cgroup_clone_children_read")) = 1
  /\ Called("trigger_existing_cgroup_probe", V2Marker)

(***************************************************************************)
(* The liveness callback inside the walk.                                  *)
(***************************************************************************)
\* C11: periodic_cb is the last thing before every pop and follows every push:
\* since the last callback the walk has made at most one pop, one opendir and no
\* push that a callback did not follow, and it has called back at least once per
\* pop and once per push.
C11_CallbackAtEveryPopAndPush ==
  Walking =>
    /\ Count(since_cb, "opendir") <= 1
    /\ Count(since_cb, "pop") <= 1
    /\ Count(since_cb, "push") = 0
    /\ (last_step = "pop") => (since_cb = <<"pop">>)
    /\ cb_calls >= BagCardinality(popped) + pushes

C11_Witness ==
  /\ wpc = "readdir"
  /\ last_step = "readdir"
  /\ pushes >= 2
  /\ BagCardinality(popped) >= 2
  /\ Len(dirs_stack) >= 2
  /\ since_cb = <<>>

(***************************************************************************)
(* The probe alternatives.                                                 *)
(***************************************************************************)
\* the attach attempts on the symbols of order came in that order, one each and
\* one right after the other, each after a failed one, and at most one attached
TriedInOrder(order) ==
  /\ \A i \in 1..Len(order) :
       /\ Cardinality(Idx("start_probe", order[i])) <= 1
       /\ (i > 1) =>
            \A j \in Idx("start_probe", order[i]) :
              /\ j > 1
              /\ calls[j - 1] = Call("start_probe", order[i - 1], FALSE)
  /\ Cardinality({i \in 1..Len(order) : \E j \in Idx("start_probe", order[i]) : calls[j].ok}) <= 1
  /\ Cardinality(attached \cap {<<"kprobe", order[i]>> : i \in 1..Len(order)}) <= 1

\* C12: the 'kill css' alternatives are tried in the order kill_css, css_clear_dir,
\* cgroup_destroy_locked and the 'css populate dir' alternatives in the order
\* css_populate_dir, cgroup_populate_dir; an alternative is tried only right after
\* the one before it failed, and at most one of a set is attached.  The first of
\* each set is tried in every run.
C12_AlternativesInOrderUntilFirstSuccess ==
  /\ TriedInOrder(<<"kill_css", "css_clear_dir", "cgroup_destroy_locked">>)
  /\ TriedInOrder(<<"css_populate_dir", "cgroup_populate_dir">>)
  /\ (pc # "attach_kill_css") => Called("start_probe", "kill_css")
  /\ (pc \notin {"attach_kill_css", "attach_populate"}) => Called("start_probe", "css_populate_dir")

C12_Witness ==
  /\ pc = "done"
  /\ \E j \in Idx("start_probe", "kill_css") : ~calls[j].ok
  /\ \E j \in Idx("start_probe", "css_clear_dir") : calls[j].ok
  /\ ~Called("start_probe", "cgroup_destroy_locked")
  /\ <<"kprobe", "css_clear_dir">> \in attached

(***************************************************************************)
(* The order of the sequencer's phases.                                    *)
(***************************************************************************)
KillCssAttach ==
  Idx("start_probe", "kill_css") \cup Idx("start_probe", "css_clear_dir")
    \cup Idx("start_probe", "cgroup_destroy_locked")

PopulateAttach == Idx("start_probe", "css_populate_dir") \cup Idx("start_probe", "cgroup_populate_dir")

V1Attach == Idx("start_probe", "cgroup_clone_children_read") \cup Idx("start_probe", "cgroup_attach_task")

V1Backfill == Idx("trigger_existing_cgroup_probe", V1Marker) \cup Idx("returned", V1Marker)

V1Detach == Idx("cleanup_probe", "cgroup_clone_children_read")

V2Attach == Idx("start_probe", "cgroup_control") \cup Idx("start_kretprobe", "cgroup_control")

V2Backfill == Idx("trigger_existing_cgroup_probe", V2Marker) \cup Idx("returned", V2Marker)

V2Detach == Idx("cleanup_probe", "cgroup_control") \cup Idx("cleanup_kretprobe", "cgroup_control")

\* C13: the phases come in the order kill css attach, css populate dir attach, v1
\* attach, v1 backfill, v1 detach, v2 attach, v2 backfill, v2 detach; a backfill
\* that starts finds its trigger probes and the destroy-side and populate-side
\* probes already attempted, and a finished run has made every phase that does
\* not depend on a mountpoint or the kernel version.
C13_PhasesInFixedOrder ==
  /\ AllBefore(KillCssAttach, PopulateAttach)
  /\ AllBefore(PopulateAttach, V1Attach)
  /\ AllBefore(V1Attach, V1Backfill \cup V1Detach)
  /\ AllBefore(V1Backfill, V1Detach)
  /\ AllBefore(V1Detach, V2Attach)
  /\ AllBefore(V2Attach, V2Backfill \cup V2Detach)
  /\ AllBefore(V2Backfill, V2Detach)
  /\ AllBefore(KillCssAttach \cup PopulateAttach, V1Backfill \cup V2Backfill)
  /\ (V1Backfill # {}) =>
       /\ Called("start_probe", "cgroup_clone_children_read")
       /\ Called("start_probe", "cgroup_attach_task")
       /\ KillCssAttach # {}
       /\ PopulateAttach # {}
  /\ (V2Backfill # {}) =>
       /\ Called("start_probe", "cgroup_control")
       /\ Called("start_kretprobe", "cgroup_control")
       /\ KillCssAttach # {}
       /\ V1Detach # {}
  /\ (pc = "done") =>
       /\ KillCssAttach # {}
       /\ PopulateAttach # {}
       /\ Called("start_probe", "cgroup_clone_children_read")
       /\ V1Detach # {}
       /\ (V2Attach # {}) => (V2Detach # {})

C13_Witness ==
  /\ pc = "done"
  /\ Called("returned", V1Marker)
  /\ Called("returned", V2Marker)
  /\ Called("start_probe", "cgroup_destroy_locked")
  /\ Called("start_probe", "cgroup_populate_dir")

(***************************************************************************)
(* The two backfills.                                                      *)
(***************************************************************************)
\* C14: in a finished run the v1 hierarchy was walked exactly when a v1 mountpoint
\* was found, and on a kernel of 4.6 or later the v2 hierarchy was walked exactly
\* when a v2 mountpoint was found, whatever the other lookup gave; each walk that
\* started has returned.
C14_BackfillsIndependent ==
  (pc = "done") =>
    /\ Called("trigger_existing_cgroup_probe", V1Marker) <=> (cgroup_v1_mountpoint # NoPath)
    /\ AtLeast46 =>
         (Called("trigger_existing_cgroup_probe", V2Marker) <=> (cgroup_v2_mountpoint # NoPath))
    /\ Called("trigger_existing_cgroup_probe", V1Marker) <=> Called("returned", V1Marker)
    /\ Called("trigger_existing_cgroup_probe", V2Marker) <=> Called("returned", V2Marker)

C14_Witness ==
  /\ pc = "done"
  /\ cgroup_v1_mountpoint # NoPath
  /\ cgroup_v2_mountpoint # NoPath
  /\ Called("returned", V1Marker)
  /\ Called("returned", V2Marker)

(***************************************************************************)
(* Attach failures.                                                        *)
(***************************************************************************)
FailedAttach(op, sym) == \E j \in Idx(op, sym) : ~calls[j].ok

\* every alternative of the set was tried and none attached
Exhausted(order) == \A i \in 1..Len(order) : FailedAttach("start_probe", order[i])

\* C15: once every alternative of a set, or a single-symbol attach, has failed,
\* the sequencer makes none of the later phases and does not finish as if nothing
\* had happened.
C15_AttachFailureSurfaced ==
  /\ Exhausted(<<"kill_css", "css_clear_dir", "cgroup_destroy_locked">>) =>
       (PopulateAttach = {} /\ V1Attach = {} /\ pc # "done")
  /\ Exhausted(<<"css_populate_dir", "cgroup_populate_dir">>) =>
       (V1Attach = {} /\ pc # "done")
  /\ (FailedAttach("start_probe", "cgroup_clone_children_read")
        \/ FailedAttach("start_probe", "cgroup_attach_task")) =>
       (V1Backfill = {} /\ pc # "done")
  /\ (FailedAttach("start_probe", "cgroup_control")
        \/ FailedAttach("start_kretprobe", "cgroup_control")) =>
       (V2Backfill = {} /\ pc # "done")

(***************************************************************************)
(* The checkpoint callback.                                                *)
(***************************************************************************)
Lookups == Idx("find_cgroup_v1_mountpoint", "") \cup Idx("find_cgroup_v2_mountpoint", "")

\* check_cb gets startup once, after the v1 attach and before every lookup and
\* backfill; v1 exactly when the v1 walk ran, after it; v2 only on a kernel of 4.6
\* or later, after the v2 walk; cleanup once, as the last call of the run, right
\* after a periodic_cb; and no other string
CheckpointsInOrder(startup, v1, v2, cleanup) ==
  /\ \A i \in 1..Len(calls) : (calls[i].op = "check_cb") => (calls[i].sym \in {startup, v1, v2, cleanup})
  /\ Cardinality(Idx("check_cb", startup)) <= 1
  /\ (pc \notin {"attach_kill_css", "attach_populate", "attach_v1"}) => Called("check_cb", startup)
  /\ AllBefore(V1Attach, Idx("check_cb", startup))
  /\ AllBefore(Idx("check_cb", startup), Lookups \cup V1Backfill \cup V2Backfill)
  /\ Cardinality(Idx("check_cb", v1)) <= 1
  /\ AllBefore(V1Backfill, Idx("check_cb", v1))
  /\ (pc \notin {"attach_kill_css", "attach_populate", "attach_v1", "find_v1", "v1_found", "v1_walk"}) =>
       (Called("check_cb", v1) <=> (cgroup_v1_mountpoint # NoPath))
  /\ Cardinality(Idx("check_cb", v2)) <= 1
  /\ AllBefore(V2Backfill, Idx("check_cb", v2))
  /\ Called("check_cb", v2) => (AtLeast46 /\ Called("returned", V2Marker))
  /\ (pc = "done") => (Called("returned", V2Marker) => Called("check_cb", v2))
  /\ Called("check_cb", cleanup) <=> (pc = "done")
  /\ (pc = "done") =>
       /\ Len(calls) >= 2
       /\ calls[Len(calls)] = Call("check_cb", cleanup, TRUE)
       /\ calls[Len(calls) - 1] = Call("periodic_cb", "", TRUE)
       /\ Cardinality(Idx("check_cb", cleanup)) = 1

\* C16, as claimed: the strings are "cgroup prober startup", "trigger v1",
\* "trigger v2" and "cgroup prober cleanup", in the order of CheckpointsInOrder.
C16_CheckpointsAsClaimed ==
  CheckpointsInOrder("cgroup prober startup", "trigger v1", "trigger v2", "cgroup prober cleanup")

\* C16, amended: the strings are "cgroup prober startup",
\* "trigger_cgroup_clone_children_read()", "trigger_cgroup_control()" and
\* "cgroup prober cleanup()", in the order of CheckpointsInOrder.
C16_CheckpointsInOrder ==
  CheckpointsInOrder("cgroup prober startup", "trigger_cgroup_clone_children_read()",
                     "trigger_cgroup_control()", "cgroup prober cleanup()")

C16_Witness ==
  /\ pc = "done"
  /\ Called("check_cb", "cgroup prober startup")
  /\ Called("check_cb", "trigger_cgroup_clone_children_read()")
  /\ Called("check_cb", "trigger_cgroup_control()")
  /\ calls[Len(calls)] = Call("check_cb", "cgroup prober cleanup()", TRUE)

(***************************************************************************)
(* Termination.                                                            *)
(***************************************************************************)
\* C17: on a tree that gains no directory, a walk pops no more than the tree has
\* nodes, every walk that was entered returns, whatever opendir, the marker open and
\* closedir answer, and the constructor reaches its last checkpoint.
C17_WalkAndSequencerTerminate ==
  /\ [](BagCardinality(popped) <= Cardinality(tree))
  /\ (wpc = "loop") ~> (wpc = "returned")
  /\ <>(pc = "done" /\ Called("check_cb", "cgroup prober cleanup()"))

C17_Witness ==
  /\ pc = "done"
  /\ Called("returned", V1Marker)
  /\ Called("returned", V2Marker)
  /\ failed_closes >= 2

(***************************************************************************)
(* Directories removed during the walk.                                    *)
(***************************************************************************)
\* the directories strictly above p, the walked root included
Ancestors(p) == {SubSeq(p, 1, k) : k \in Len(cgroup_dir_name)..(Len(p) - 1)}

\* C18: while directories are removed and no opendir fails for another reason, no
\* path is popped twice and no marker opened twice; a failed opendir continues
\* the loop with the stack as it was; and when the walk returns every path that was
\* stacked at a failed opendir has been popped, and every directory still there
\* whose ancestors' marker files all opened has been popped once.
C18_RemovalIsASkip ==
  (Walking /\ dir_fault = {}) =>
    /\ \A p \in BagToSet(popped) : CopiesIn(p, popped) = 1
    /\ \A m \in BagToSet(marker_opened) : CopiesIn(m, marker_opened) = 1
    /\ (last_step = "opendir_fail") => (wpc = "loop" /\ Range(dirs_stack) \subseteq owed)
    /\ (wpc = "returned") =>
         /\ owed = {}
         /\ \A p \in NodePaths :
              (Ancestors(p) \cap marker_fault = {}) => CopiesIn(p, popped) = 1

C18_Witness ==
  /\ wpc = "returned"
  /\ dir_fault = {}
  /\ \E p \in BagToSet(popped) : p \notin NodePaths /\ ~BagIn(MarkerOf(p), marker_opened)
  /\ rescued # {}
  /\ \E p \in NodePaths : p # cgroup_dir_name /\ BagIn(MarkerOf(p), marker_opened)

(***************************************************************************)
(* The probes that stay.                                                   *)
(***************************************************************************)
\* the probes that record cgroup events for as long as the collector runs
PermanentSymbols ==
  Range(kill_kss_probe_alternatives) \cup Range(css_populate_dir_probe_alternatives)
    \cup {"cgroup_attach_task"}

\* C19: the only names a detach is called with are cgroup_clone_children_read and
\* cgroup_control, and every kill css alternative, css populate dir alternative
\* and cgroup_attach_task probe that attached is attached from then on.
C19_PermanentProbesStay ==
  /\ \A i \in 1..Len(calls) :
       /\ (calls[i].op \in {"cleanup_probe", "cleanup_kretprobe"}) =>
            (calls[i].sym \in {"cgroup_clone_children_read", "cgroup_control"})
       /\ (calls[i].op = "start_probe" /\ calls[i].ok /\ calls[i].sym \in PermanentSymbols) =>
            (<<"kprobe", calls[i].sym>> \in attached)
  /\ \A pr \in attached : (pr \notin TransientProbes) => (pr[1] = "kprobe" /\ pr[2] \in PermanentSymbols)

C19_Witness ==
  /\ pc = "done"
  /\ Called("cleanup_probe", "cgroup_clone_children_read")
  /\ Called("cleanup_probe", "cgroup_control")
  /\ Called("cleanup_kretprobe", "cgroup_control")
  /\ <<"kprobe", "cgroup_attach_task">> \in attached
  /\ <<"kprobe", "cgroup_destroy_locked">> \in attached
  /\ <<"kprobe", "cgroup_populate_dir">> \in attached
=============================================================================
